---------------------------- MODULE Spec2Model ----------------------------
(***************************************************************************)
(* Model of the eplus-stubgen core: the IDD parser                         *)
(* (mypy_eppy_builder/idd_parser.py) and the declaration emitter           *)
(* (mypy_eppy_builder/typed_emitter.py).                                   *)
(*                                                                         *)
(* Text is modelled as sequences of one-character strings, so that prefix  *)
(* tests, stripping, lower-casing, number parsing and quoting are computed *)
(* the way the Python code computes them.                                  *)
(***************************************************************************)
EXTENDS Integers, Sequences, FiniteSets, TLC

VARIABLES
    lines,          \* parse_idd: the stripped line list (idd_parser.py:97)
    pos,            \* parse_idd: cursor of the shared iterator `it` (next line to yield)
    pc,             \* parse_idd: "outer" | "inner" | "field" | "done" | "error"
    objects,        \* parse_idd: the result list
    key,            \* parse_idd: key of the object being scanned
    fields,         \* parse_idd: fields of the object being scanned
    cur,            \* _parse_field_block: the locals of the field being built
    objs,           \* emitter: the object list handed to both operations
    kwargs_out,     \* emit_kwarg_typeddicts: the record declarations written
    overloads_out,  \* emit_idf_overloads: the signatures written
    epc,            \* emitter: the operations that have run, of "A" and "B"
    fn_in,          \* input of the pure function under check
    fn_out,         \* its result
    fpc             \* "choice" | "choice_done" | "snake" | "snake_done"

vars == <<lines, pos, pc, objects, key, fields, cur,
          objs, kwargs_out, overloads_out, epc, fn_in, fn_out, fpc>>

parserVars == <<lines, pos, pc, objects, key, fields, cur>>
emitVars == <<objs, kwargs_out, overloads_out, epc>>
fnVars == <<fn_in, fn_out, fpc>>

(***************************************************************************)
(* Bounds of the model.                                                    *)
(***************************************************************************)
MaxLines == 4       \* lines of a free-form dictionary text
MaxBlocks == 2      \* objects of a well-formed dictionary text
MaxFields == 2      \* fields per object of a well-formed text
MaxDirs == 1        \* directive lines per field of a well-formed text
MaxValLen == 3      \* characters of a key directive value
MaxLabelLen == 3    \* characters of a field label
MaxObjs == 2        \* objects handed to the emitter

(***************************************************************************)
(* Characters and strings (Python str methods used by the code).           *)
(***************************************************************************)
UpperSeq == <<"A","B","C","D","E","F","G","H","I","J","K","L","M",
              "N","O","P","Q","R","S","T","U","V","W","X","Y","Z">>
LowerSeq == <<"a","b","c","d","e","f","g","h","i","j","k","l","m",
              "n","o","p","q","r","s","t","u","v","w","x","y","z">>
DigitSeq == <<"0","1","2","3","4","5","6","7","8","9">>

Range(s) == {s[i] : i \in DOMAIN s}

UpperChars == Range(UpperSeq)
LowerChars == Range(LowerSeq)
\* the characters int() reads as decimal digits
DecDigits == Range(DigitSeq)
\* str.isdigit() is also true of digit characters that are not decimal,
\* such as SUPERSCRIPT TWO (U+00B2), written "SUP2" here
PyDigits == DecDigits \cup {"SUP2"}
\* str.strip() with no argument strips whitespace
WS == {" "}

\* code points in increasing order (the order of str comparison)
CodeOrder == <<" ", "'", ",", "-", ".">> \o DigitSeq \o <<":", ";">> \o UpperSeq
             \o <<"\\", "_">> \o LowerSeq \o <<"SUP2">>

Ord(c) == CHOOSE i \in DOMAIN CodeOrder : CodeOrder[i] = c

DigitVal(c) == (CHOOSE i \in DOMAIN DigitSeq : DigitSeq[i] = c) - 1

\* str.lower() of one character
LowerChar(c) ==
    IF c \in UpperChars
    THEN LowerSeq[CHOOSE i \in DOMAIN UpperSeq : UpperSeq[i] = c]
    ELSE c

Lower(s) == [i \in DOMAIN s |-> LowerChar(s[i])]

\* str.isalnum() of one character
IsAlnum(c) == c \in UpperChars \cup LowerChars \cup PyDigits

StartsWith(s, p) == Len(s) >= Len(p) /\ SubSeq(s, 1, Len(p)) = p

EndsWith(s, p) == Len(s) >= Len(p) /\ SubSeq(s, Len(s) - Len(p) + 1, Len(s)) = p

\* `p in s` for strings
Contains(s, p) ==
    \E i \in 1..(Len(s) - Len(p) + 1) : SubSeq(s, i, i + Len(p) - 1) = p

RECURSIVE LStrip(_, _)
LStrip(s, cs) ==
    IF s # <<>> /\ Head(s) \in cs THEN LStrip(Tail(s), cs) ELSE s

RECURSIVE RStrip(_, _)
RStrip(s, cs) ==
    IF s # <<>> /\ s[Len(s)] \in cs THEN RStrip(SubSeq(s, 1, Len(s) - 1), cs) ELSE s

\* str.strip(chars)
Strip(s, cs) == RStrip(LStrip(s, cs), cs)

\* str.isdigit()
IsDigitStr(s) == s # <<>> /\ \A i \in DOMAIN s : s[i] \in PyDigits

\* value of a string of decimal digits
RECURSIVE DecVal(_)
DecVal(s) ==
    IF s = <<>> THEN 0
    ELSE 10 * DecVal(SubSeq(s, 1, Len(s) - 1)) + DigitVal(s[Len(s)])

\* int(s) for a string that passed isdigit(): ValueError on a digit
\* character that is not decimal
PyInt(s) ==
    IF \A i \in DOMAIN s : s[i] \in DecDigits
    THEN [raised |-> FALSE, val |-> DecVal(s)]
    ELSE [raised |-> TRUE, val |-> 0]

\* s.split()[0] of a non-empty stripped line: the first whitespace-delimited token
FirstToken(s) ==
    LET t == LStrip(s, WS)
        stop == IF \E i \in DOMAIN t : t[i] \in WS
                THEN (CHOOSE i \in DOMAIN t :
                        t[i] \in WS /\ \A j \in 1..(i - 1) : t[j] \notin WS) - 1
                ELSE Len(t)
    IN  SubSeq(t, 1, stop)

(***************************************************************************)
(* Directive prefixes and literals of idd_parser.py.                       *)
(***************************************************************************)
P_begin == <<"\\","b","e","g","i","n","-","o","b","j","e","c","t">>
P_end == <<"\\","e","n","d","-","o","b","j","e","c","t">>
P_field == <<"\\","f","i","e","l","d">>
P_type == <<"\\","t","y","p","e">>
P_required_field == <<"\\","r","e","q","u","i","r","e","d","-","f","i","e","l","d">>
P_required_object == <<"\\","r","e","q","u","i","r","e","d","-","o","b","j","e","c","t">>
P_default == <<"\\","d","e","f","a","u","l","t">>
P_minimum == <<"\\","m","i","n","i","m","u","m">>
P_maximum == <<"\\","m","a","x","i","m","u","m">>
P_key == <<"\\","k","e","y">>
P_blank == <<"\\","b","l","a","n","k">>
P_note == <<"\\","n","o","t","e">>
S_Field == <<"F","i","e","l","d">>

(***************************************************************************)
(* idd_parser.py helpers.                                                  *)
(***************************************************************************)
\* _strip_comments: cut at the first "!", strip, drop empty lines
StripLine(raw) ==
    LET cut == IF \E i \in DOMAIN raw : raw[i] = "!"
               THEN (CHOOSE i \in DOMAIN raw :
                        raw[i] = "!" /\ \A j \in 1..(i - 1) : raw[j] # "!") - 1
               ELSE Len(raw)
    IN  Strip(SubSeq(raw, 1, cut), WS)

_strip_comments(raws) ==
    SelectSeq([i \in DOMAIN raws |-> StripLine(raws[i])], LAMBDA s : s # <<>>)

\* mutant of _extract_after: the slice keeps the prefix instead of what follows it
_extract_after_KeepsPrefix(line, prefix) ==
    Strip(Strip(SubSeq(line, 1, Len(prefix)), WS), {",", ";", " "})

\* _extract_after
_extract_after(line, prefix) ==
    Strip(Strip(SubSeq(line, Len(prefix) + 1, Len(line)), WS), {",", ";", " "})

\* _normalize_kind
_normalize_kind(t) ==
    IF t \in {<<"a","l","p","h","a">>, <<"s","t","r","i","n","g">>} THEN "alpha"
    ELSE IF t = <<"n","o","d","e">> THEN "node"
    ELSE IF t = <<"o","b","j","e","c","t","-","l","i","s","t">> THEN "object-list"
    ELSE IF t = <<"r","e","a","l">> THEN "real"
    ELSE IF t = <<"i","n","t","e","g","e","r">> THEN "integer"
    ELSE IF t = <<"c","h","o","i","c","e">> THEN "choice"
    ELSE IF t = <<"b","o","o","l","e","a","n">> THEN "boolean"
    ELSE "unknown"

\* A choice value: an int or a str
IntChoice(n) == [t |-> "int", n |-> n, s |-> <<>>]
StrChoice(s) == [t |-> "str", n |-> 0, s |-> s]

\* float(val) on the texts [sign] digits [. [digits]] and [sign] . digits;
\* every other text of the alphabet used here raises ValueError.
\* ok: parsed; integral: f.is_integer(); val: int(f)
PyFloat(val) ==
    LET neg == val # <<>> /\ Head(val) = "-"
        body == IF neg THEN Tail(val) ELSE val
        hasDot == \E i \in DOMAIN body : body[i] = "."
        dot == IF hasDot THEN CHOOSE i \in DOMAIN body : body[i] = "." ELSE Len(body) + 1
        ip == SubSeq(body, 1, dot - 1)
        fp == SubSeq(body, dot + 1, Len(body))
        ok == /\ \A i \in DOMAIN ip : ip[i] \in DecDigits
              /\ \A i \in DOMAIN fp : fp[i] \in DecDigits
              /\ Len(ip) + Len(fp) > 0
    IN  [ok |-> ok,
         integral |-> ok /\ \A i \in DOMAIN fp : fp[i] = "0",
         val |-> IF ok THEN (IF neg THEN 0 - DecVal(ip) ELSE DecVal(ip)) ELSE 0]

\* _parse_choice: raised is the ValueError of int() at line 244, which no
\* handler catches
_parse_choice(v) ==
    LET val == Strip(v, WS)
    IN  IF IsDigitStr(val)
        THEN IF PyInt(val).raised
             THEN [raised |-> TRUE, c |-> StrChoice(val)]
             ELSE [raised |-> FALSE, c |-> IntChoice(PyInt(val).val)]
        ELSE IF PyFloat(val).ok /\ PyFloat(val).integral
             THEN [raised |-> FALSE, c |-> IntChoice(PyFloat(val).val)]
             ELSE [raised |-> FALSE, c |-> StrChoice(val)]

\* _parse_field_block, header: the index read from the first token
HeaderIndex(first_line) ==
    LET idx_part == FirstToken(first_line)
        rest == SubSeq(idx_part, 2, Len(idx_part))
    IN  IF Len(idx_part) > 1 /\ IsDigitStr(rest)
        THEN PyInt(rest)
        ELSE [raised |-> FALSE, val |-> 0]

\* _parse_field_block: the locals after the header
NewField(index) ==
    [index |-> index, name_raw |-> S_Field, kind |-> "unknown",
     required |-> FALSE, allows_blank |-> FALSE, has_default |-> FALSE,
     choices |-> <<>>]

NoField == NewField(0)

\* the field and type directives, as the directive chain reads them
ApplyDirective_Header(f, line) ==
    IF StartsWith(line, P_field)
    THEN [f EXCEPT !.name_raw = _extract_after(line, P_field)]
    ELSE IF StartsWith(line, P_type)
    THEN [f EXCEPT !.kind = _normalize_kind(Lower(_extract_after(line, P_type)))]
    ELSE f

\* mutant of HeaderField: directive text written on the header line, after
\* the first token, is applied to the new field
HeaderField_ReadsDirective(first_line) ==
    LET rest == Strip(SubSeq(first_line, Len(FirstToken(first_line)) + 1,
                             Len(first_line)), {",", ";", " "})
    IN  ApplyDirective_Header(NewField(HeaderIndex(first_line).val), rest)

\* _parse_field_block, lines 155-163: the locals once the header line is read
HeaderField(first_line) == NewField(HeaderIndex(first_line).val)

\* _parse_field_block: the directive chain; raised when _parse_choice raises
ApplyDirective(f, line) ==
    IF StartsWith(line, P_field)
    THEN [raised |-> FALSE, f |-> [f EXCEPT !.name_raw = _extract_after(line, P_field)]]
    ELSE IF StartsWith(line, P_type)
    THEN [raised |-> FALSE,
          f |-> [f EXCEPT !.kind = _normalize_kind(Lower(_extract_after(line, P_type)))]]
    ELSE IF StartsWith(line, P_required_field) \/ StartsWith(line, P_required_object)
    THEN [raised |-> FALSE, f |-> [f EXCEPT !.required = TRUE]]
    ELSE IF StartsWith(line, P_default)
    THEN [raised |-> FALSE, f |-> [f EXCEPT !.has_default = TRUE]]
    ELSE IF StartsWith(line, P_minimum) \/ StartsWith(line, P_maximum)
    THEN [raised |-> FALSE, f |-> f]
    ELSE IF StartsWith(line, P_key)
    THEN LET r == _parse_choice(_extract_after(line, P_key))
         IN  [raised |-> r.raised,
              f |-> IF r.raised THEN f
                    ELSE [f EXCEPT !.choices = Append(f.choices, r.c)]]
    ELSE IF StartsWith(line, P_blank)
    THEN [raised |-> FALSE, f |-> [f EXCEPT !.allows_blank = TRUE]]
    ELSE IF StartsWith(line, P_note)
    THEN [raised |-> FALSE, f |-> f]
    ELSE [raised |-> FALSE, f |-> f]

\* mutant of FinalKind: the kind is returned as the type directive left it
FinalKind_NoCoercion(kind, choices) == kind

\* _parse_field_block: the kind of the finished field
FinalKind(kind, choices) ==
    IF choices # <<>> /\ kind \notin {"integer", "real", "boolean"}
    THEN "choice"
    ELSE kind

\* _parse_field_block: the IDDField returned
MkField(f) == [f EXCEPT !.kind = FinalKind(f.kind, f.choices)]

\* _pushback as _parse_field_block uses it: the generator it returns is bound
\* to the local name `it` only and is never iterated, so the caller's
\* iterator stays where it is, after the line just read
_pushback(p) == p

\* mutant of IsHeaderStart: a header is the letter followed by a decimal digit
IsHeaderStart_NeedsDigit(line) ==
    /\ StartsWith(line, <<"A">>) \/ StartsWith(line, <<"N">>)
    /\ Len(line) >= 2
    /\ line[2] \in DecDigits

\* whether a line is a boundary of a field block, and whether it is handed
\* to _pushback
IsHeaderStart(line) == StartsWith(line, <<"A">>) \/ StartsWith(line, <<"N">>)

(***************************************************************************)
(* parse_idd as a state machine: one action per loop iteration.            *)
(***************************************************************************)
\* the outer `for _, line in it` (lines 100-113)
OuterNext ==
    /\ pc = "outer"
    /\ IF pos > Len(lines)
       THEN /\ pc' = "done"
            /\ UNCHANGED <<pos, key, fields>>
       ELSE /\ pos' = pos + 1
            /\ IF StartsWith(lines[pos], P_begin)
               THEN /\ key' = _extract_after(lines[pos], P_begin)
                    /\ fields' = <<>>
                    /\ pc' = "inner"
               ELSE UNCHANGED <<pc, key, fields>>
    /\ UNCHANGED <<lines, objects, cur>>
    /\ UNCHANGED emitVars
    /\ UNCHANGED fnVars

\* the inner `for _, l2 in it` and the append that follows it (lines 106-112)
InnerNext ==
    /\ pc = "inner"
    /\ IF pos > Len(lines)
       THEN /\ objects' = Append(objects, [key |-> key, fields |-> fields])
            /\ pc' = "outer"
            /\ UNCHANGED <<pos, cur>>
       ELSE /\ pos' = pos + 1
            /\ IF StartsWith(lines[pos], P_end)
               THEN /\ objects' = Append(objects, [key |-> key, fields |-> fields])
                    /\ pc' = "outer"
                    /\ UNCHANGED cur
               ELSE IF IsHeaderStart(lines[pos])
               THEN /\ pc' = IF HeaderIndex(lines[pos]).raised THEN "error" ELSE "field"
                    /\ cur' = HeaderField(lines[pos])
                    /\ UNCHANGED objects
               ELSE UNCHANGED <<pc, objects, cur>>
    /\ UNCHANGED <<lines, key, fields>>
    /\ UNCHANGED emitVars
    /\ UNCHANGED fnVars

\* the `for _, line in it` of _parse_field_block, its return and the
\* fields.append of the caller (lines 166-206, 111)
FieldNext ==
    /\ pc = "field"
    /\ IF pos > Len(lines)
       THEN /\ fields' = Append(fields, MkField(cur))
            /\ pc' = "inner"
            /\ UNCHANGED <<pos, cur>>
       ELSE IF IsHeaderStart(lines[pos]) \/ StartsWith(lines[pos], P_begin)
       THEN /\ pos' = _pushback(pos + 1)
            /\ fields' = Append(fields, MkField(cur))
            /\ pc' = "inner"
            /\ UNCHANGED cur
       ELSE IF StartsWith(lines[pos], P_end)
       THEN /\ pos' = pos + 1
            /\ fields' = Append(fields, MkField(cur))
            /\ pc' = "inner"
            /\ UNCHANGED cur
       ELSE /\ pos' = pos + 1
            /\ cur' = ApplyDirective(cur, lines[pos]).f
            /\ pc' = IF ApplyDirective(cur, lines[pos]).raised THEN "error" ELSE "field"
            /\ UNCHANGED fields
    /\ UNCHANGED <<lines, key, objects>>
    /\ UNCHANGED emitVars
    /\ UNCHANGED fnVars


(***************************************************************************)
(* Dictionary texts.                                                       *)
(***************************************************************************)
L_BeginZ == P_begin \o <<" ","Z","N">>
L_BeginB == P_begin \o <<" ","B",":","D",",">>
L_End == P_end
L_HdrA1 == <<"A","1"," ",",">>
L_HdrN2 == <<"N","2",",">>
L_HdrA3Field == <<"A","3"," ",","," ">> \o P_field \o <<" ","X">>
L_Any == <<"A","n","y">>
L_FieldNm == P_field \o <<" ","N","m">>
L_FieldX == P_field \o <<" ","X">>
L_TypeReal == P_type \o <<" ","R","e","a","l">>
L_TypeAlpha == P_type \o <<" ","a","l","p","h","a">>
L_KeyYes == P_key \o <<" ","Y","e","s">>
L_Key10 == P_key \o <<" ","1",".","0">>
L_KeySup == P_key \o <<" ","SUP2">>
L_Blank == P_blank \o <<" ","!","c">>
L_Required == P_required_field

\* raw lines of a free-form text
LineVocab ==
    {L_BeginZ, L_End, L_HdrA1, L_HdrN2, L_HdrA3Field, L_Any, L_FieldNm,
     L_TypeReal, L_TypeAlpha, L_KeyYes, L_KeySup, L_Blank}

SeqsUpTo(S, n) == UNION {[1..k -> S] : k \in 0..n}

\* every text of at most MaxLines lines of LineVocab
FreeTexts == SeqsUpTo(LineVocab, MaxLines)

\* well-formed texts: 1..MaxBlocks begin-object ... end-object blocks, each
\* of 1..MaxFields fields, each field a header line, a field directive and
\* at most MaxDirs more directive lines
FieldTexts ==
    {<<L_HdrA1, n>> \o d : n \in {L_FieldNm, L_FieldX},
                          d \in SeqsUpTo({L_Required, L_Key10}, MaxDirs)}

RECURSIVE FieldsTexts(_)
FieldsTexts(n) ==
    IF n = 0 THEN {<<>>}
    ELSE {f \o r : f \in FieldTexts, r \in FieldsTexts(n - 1)}

BlockTexts ==
    {<<b>> \o f \o <<L_End>> : b \in {L_BeginZ, L_BeginB},
                               f \in UNION {FieldsTexts(n) : n \in 1..MaxFields}}

RECURSIVE BlocksTexts(_)
BlocksTexts(k) ==
    IF k = 0 THEN {<<>>}
    ELSE {b \o r : b \in BlockTexts, r \in BlocksTexts(k - 1)}

WellFormedTexts == UNION {BlocksTexts(k) : k \in 1..MaxBlocks}

\* the emitter and the pure-function variables while the parser runs
EmitIdle ==
    /\ objs = <<>>
    /\ kwargs_out = <<>>
    /\ overloads_out = <<>>
    /\ epc = {}

FnIdle ==
    /\ fn_in = <<>>
    /\ fn_out = <<>>
    /\ fpc = "idle"

ParserIdle ==
    /\ lines = <<>>
    /\ pos = 1
    /\ pc = "idle"
    /\ objects = <<>>
    /\ key = <<>>
    /\ fields = <<>>
    /\ cur = NoField

\* parse_idd up to the first loop iteration (lines 96-99)
ParseStart(text) ==
    /\ lines = _strip_comments(text)
    /\ pos = 1
    /\ pc = "outer"
    /\ objects = <<>>
    /\ key = <<>>
    /\ fields = <<>>
    /\ cur = NoField

Init ==
    /\ \E text \in FreeTexts : ParseStart(text)
    /\ EmitIdle
    /\ FnIdle

Next == OuterNext \/ InnerNext \/ FieldNext

\* the parser on free-form texts
Spec == Init /\ [][Next]_vars

BlockInit ==
    /\ \E text \in WellFormedTexts : ParseStart(text)
    /\ EmitIdle
    /\ FnIdle

\* the parser on well-formed texts
BlockSpec == BlockInit /\ [][Next]_vars

(***************************************************************************)
(* What a text declares, read off the line list.                           *)
(***************************************************************************)
LinePos == [i \in 1..Len(lines) |-> i]

BeginPos == SelectSeq(LinePos, LAMBDA i : StartsWith(lines[i], P_begin))
EndPos == SelectSeq(LinePos, LAMBDA i : StartsWith(lines[i], P_end))

\* the header lines of the b-th block of a well-formed text
HeaderPos(b) ==
    SelectSeq(LinePos, LAMBDA i : /\ BeginPos[b] < i
                                  /\ i < EndPos[b]
                                  /\ IsHeaderStart(lines[i]))

\* the end of the field block whose header is the k-th of block b
BlockStop(b, k) ==
    IF k < Len(HeaderPos(b)) THEN HeaderPos(b)[k + 1] ELSE EndPos[b]

\* the label set by the field directive among the header's own lines
OwnName(b, k) ==
    LET own == SelectSeq(LinePos, LAMBDA i : /\ HeaderPos(b)[k] < i
                                             /\ i < BlockStop(b, k)
                                             /\ StartsWith(lines[i], P_field))
    IN  IF own = <<>> THEN S_Field
        ELSE _extract_after(lines[own[Len(own)]], P_field)

DeclaredNames(b) == [k \in DOMAIN HeaderPos(b) |-> OwnName(b, k)]

DeclaredKeys == [b \in DOMAIN BeginPos |-> _extract_after(lines[BeginPos[b]], P_begin)]

NamesOf(o) == [j \in DOMAIN o.fields |-> o.fields[j].name_raw]

ReturnedFields ==
    UNION {Range(objects[i].fields) : i \in DOMAIN objects}

(***************************************************************************)
(* Claims about the parser.                                                *)
(***************************************************************************)
\* C1: for every object body of n header lines, each followed by its own
\* directive lines, parse returns that object with exactly n fields in
\* declaration order, each carrying the label of its own field directive
\* (a field block does not consume the header line that ends it).
C1_FieldsOwnTheirLines ==
    pc = "done" =>
        \A b \in DOMAIN BeginPos :
            \E i \in DOMAIN objects :
                /\ objects[i].key = DeclaredKeys[b]
                /\ NamesOf(objects[i]) = DeclaredNames(b)

\* C2: a text of k consecutive begin-object ... end-object blocks, each with
\* one or more fields, parses to exactly k objects whose keys are the k
\* begin-object keys in source order.
C2_ObjectsInSourceOrder ==
    pc = "done" =>
        [i \in DOMAIN objects |-> objects[i].key] = DeclaredKeys

\* C3: every field of every returned object with choices and a kind other
\* than integer, real, boolean has kind choice, whatever the order of the
\* type and key directives.
C3_ChoiceKind ==
    \A f \in ReturnedFields :
        (f.choices # <<>> /\ f.kind \notin {"integer", "real", "boolean"})
            => f.kind = "choice"

\* C3 witness: a type directive that follows a key directive in the same
\* field block, and the field returned as a choice
C3_Witness ==
    /\ pc = "done"
    /\ \E i \in 1..(Len(lines) - 1) :
          StartsWith(lines[i], P_key) /\ lines[i + 1] = L_TypeAlpha
    /\ \E f \in ReturnedFields : f.kind = "choice" /\ f.choices # <<>>

\* C8: parse never aborts, whatever the lines are
C8_NeverAborts == pc # "error"

(***************************************************************************)
(* typed_emitter.py helpers.                                               *)
(***************************************************************************)
\* str.split(sep) for a one-character separator
RECURSIVE SplitOn(_, _)
SplitOn(s, c) ==
    IF \E i \in DOMAIN s : s[i] = c
    THEN LET i == CHOOSE i \in DOMAIN s : s[i] = c /\ \A j \in 1..(i - 1) : s[j] # c
         IN  <<SubSeq(s, 1, i - 1)>> \o SplitOn(SubSeq(s, i + 1, Len(s)), c)
    ELSE <<s>>

\* sep.join(parts)
RECURSIVE JoinWith(_, _)
JoinWith(parts, sep) ==
    IF parts = <<>> THEN <<>>
    ELSE IF Len(parts) = 1 THEN parts[1]
    ELSE parts[1] \o sep \o JoinWith(Tail(parts), sep)

\* "_".join(filter(None, s.split("_")))
CollapseUnderscores(s) ==
    JoinWith(SelectSeq(SplitOn(s, "_"), LAMBDA part : part # <<>>), <<"_">>)

\* _snake_case
_snake_case(label) ==
    LET s == CollapseUnderscores(
                [i \in DOMAIN label |->
                    IF IsAlnum(label[i]) THEN LowerChar(label[i]) ELSE "_"])
    IN  IF s # <<>> /\ s[1] \in PyDigits THEN <<"_">> \o s ELSE s

S_Kwargs == <<"_","K","w","a","r","g","s">>

\* _kwargs_typeddict_name
_kwargs_typeddict_name(k) ==
    CollapseUnderscores([i \in DOMAIN k |-> IF IsAlnum(k[i]) THEN k[i] ELSE "_"])
        \o S_Kwargs

\* str(n) for an int
RECURSIVE NatStr(_)
NatStr(n) ==
    IF n < 10 THEN <<DigitSeq[n + 1]>>
    ELSE NatStr(n \div 10) \o <<DigitSeq[(n % 10) + 1]>>

PyStr(n) == IF n < 0 THEN <<"-">> \o NatStr(0 - n) ELSE NatStr(n)

\* repr(s) for a str of printable characters: double quotes when the text
\* holds a single quote and no double quote, single quotes otherwise;
\* backslashes and the enclosing quote are escaped
PyRepr(s) ==
    LET q == IF (\E i \in DOMAIN s : s[i] = "'") /\ ~(\E i \in DOMAIN s : s[i] = "\"")
             THEN "\"" ELSE "'"
        esc(c) == IF c = "\\" THEN <<"\\", "\\">>
                  ELSE IF c = q THEN <<"\\", c>>
                  ELSE <<c>>
    IN  <<q>> \o JoinWith([i \in DOMAIN s |-> esc(s[i])], <<>>) \o <<q>>

S_str == <<"s","t","r">>
S_int == <<"i","n","t">>
S_float == <<"f","l","o","a","t">>
S_bool == <<"b","o","o","l">>
S_union == <<"s","t","r"," ","|"," ","f","l","o","a","t"," ","|"," ","i","n","t">>
S_LiteralOpen == <<"L","i","t","e","r","a","l","[">>
S_None == <<"N","o","n","e">>
S_OrNone == <<" ","|"," ","N","o","n","e">>

\* mutant of _py_type: choice values are all written with repr, so integers
\* are quoted like strings
_py_type_AllQuoted(f) ==
    IF f.kind \in {"alpha", "node", "object-list"} THEN S_str
    ELSE IF f.kind = "integer" THEN S_int
    ELSE IF f.kind = "real" THEN S_float
    ELSE IF f.kind = "boolean" THEN S_bool
    ELSE IF f.kind = "choice" /\ f.choices # <<>>
    THEN S_LiteralOpen
         \o JoinWith([i \in DOMAIN f.choices |->
                        IF f.choices[i].t = "str" THEN PyRepr(f.choices[i].s)
                        ELSE PyRepr(PyStr(f.choices[i].n))],
                     <<",", " ">>)
         \o <<"]">>
    ELSE S_union

\* _py_type
_py_type(f) ==
    IF f.kind \in {"alpha", "node", "object-list"} THEN S_str
    ELSE IF f.kind = "integer" THEN S_int
    ELSE IF f.kind = "real" THEN S_float
    ELSE IF f.kind = "boolean" THEN S_bool
    ELSE IF f.kind = "choice" /\ f.choices # <<>>
    THEN S_LiteralOpen
         \o JoinWith([i \in DOMAIN f.choices |->
                        IF f.choices[i].t = "str" THEN PyRepr(f.choices[i].s)
                        ELSE PyStr(f.choices[i].n)],
                     <<",", " ">>)
         \o <<"]">>
    ELSE S_union

\* emit_kwarg_typeddicts, lines 64-74: the comment line and the slot line of
\* one field, `    {key}: {req}[{typ}]`
Slot(f) ==
    LET typ == _py_type(f)
    IN  [comment |-> f.name_raw,
         key |-> _snake_case(f.name_raw),
         req |-> IF f.required THEN "Required" ELSE "NotRequired",
         typ |-> IF (f.allows_blank \/ f.has_default) /\ ~f.required
                    /\ ~Contains(typ, S_None)
                 THEN typ \o S_OrNone
                 ELSE typ]

\* a < b for str
StrLess(a, b) ==
    \/ Len(a) < Len(b) /\ SubSeq(b, 1, Len(a)) = a
    \/ \E i \in 1..Len(a) :
          /\ i <= Len(b)
          /\ SubSeq(a, 1, i - 1) = SubSeq(b, 1, i - 1)
          /\ Ord(a[i]) < Ord(b[i])

\* sorted(objs, key=lambda o: o.key): a stable sort
RECURSIVE SortByKey(_)
SortByKey(os) ==
    IF os = <<>> THEN <<>>
    ELSE LET front == SortByKey(SubSeq(os, 1, Len(os) - 1))
             x == os[Len(os)]
             \* x goes after every element whose key is not greater
             n == Cardinality({i \in DOMAIN front : ~StrLess(x.key, front[i].key)})
         IN  SubSeq(front, 1, n) \o <<x>> \o SubSeq(front, n + 1, Len(front))

\* emit_kwarg_typeddicts, lines 58-75: the declaration of one object
\* (an object without fields gets the body `pass`: no slots)
KwargsDecl(o) ==
    [name |-> _kwargs_typeddict_name(o.key),
     slots |-> [j \in DOMAIN o.fields |-> Slot(o.fields[j])]]

\* emit_idf_overloads, lines 101-106: the signature of one object
OverloadSig(o) ==
    [sig |-> "overload", key |-> o.key, td |-> _kwargs_typeddict_name(o.key)]

\* emit_idf_overloads, lines 108-110: `def newidfobject(self, key: str, **kwargs)`
FallbackSig == [sig |-> "fallback", key |-> <<>>, td |-> <<>>]

\* emit_kwarg_typeddicts: the declarations written, in order (the import
\* lines and the header comment are not modelled)
KwargsText(os) ==
    LET sorted == SortByKey(os)
    IN  [k \in DOMAIN sorted |-> KwargsDecl(sorted[k])]

\* mutant of OverloadsText: the signatures follow the input order
OverloadsText_SourceOrder(os) ==
    [k \in DOMAIN os |-> OverloadSig(os[k])] \o <<FallbackSig>>

\* mutant of OverloadsText: the catch-all is written before the per-key signatures
OverloadsText_FallbackFirst(os) ==
    LET sorted == SortByKey(os)
    IN  <<FallbackSig>> \o [k \in DOMAIN sorted |-> OverloadSig(sorted[k])]

\* emit_idf_overloads: the signatures written, in order
OverloadsText(os) ==
    LET sorted == SortByKey(os)
    IN  [k \in DOMAIN sorted |-> OverloadSig(sorted[k])] \o <<FallbackSig>>

(***************************************************************************)
(* The emitter: Operation A and Operation B, callable in either order.     *)
(***************************************************************************)
\* emit_kwarg_typeddicts
EmitKwargs ==
    /\ "A" \notin epc
    /\ "start" \in epc
    /\ kwargs_out' = KwargsText(objs)
    /\ epc' = epc \cup {"A"}
    /\ UNCHANGED <<objs, overloads_out>>
    /\ UNCHANGED parserVars
    /\ UNCHANGED fnVars

\* emit_idf_overloads
EmitOverloads ==
    /\ "B" \notin epc
    /\ "start" \in epc
    /\ overloads_out' = OverloadsText(objs)
    /\ epc' = epc \cup {"B"}
    /\ UNCHANGED <<objs, kwargs_out>>
    /\ UNCHANGED parserVars
    /\ UNCHANGED fnVars

K_ZN == <<"Z","N">>
K_BcD == <<"B",":","D">>
K_BmD == <<"B","-","D">>
K_B == <<"B">>
N_Nm == <<"N","m">>
N_XC == <<"X","-","C">>

EmitKinds == {"alpha", "integer", "real", "boolean", "choice", "node",
              "object-list", "unknown"}

EmitChoices ==
    {<<>>,
     <<StrChoice(<<"Y","e","s">>), IntChoice(1)>>,
     <<StrChoice(S_None)>>,
     <<StrChoice(<<"a","'","b">>)>>}

\* every field of one label: any kind, choices and flags
FieldVocab ==
    {[index |-> 1, name_raw |-> N_Nm, kind |-> k, choices |-> c,
      required |-> r, allows_blank |-> b, has_default |-> d] :
        k \in EmitKinds, c \in EmitChoices, r \in BOOLEAN, b \in BOOLEAN,
        d \in BOOLEAN}

F_Req == [index |-> 1, name_raw |-> N_Nm, kind |-> "alpha", choices |-> <<>>,
          required |-> TRUE, allows_blank |-> FALSE, has_default |-> FALSE]
F_Opt == [index |-> 2, name_raw |-> N_XC, kind |-> "real", choices |-> <<>>,
          required |-> FALSE, allows_blank |-> FALSE, has_default |-> TRUE]

\* objects of four keys with zero, one and two fields
OrderObjs ==
    {[key |-> k, fields |-> fs] :
        k \in {K_ZN, K_BcD, K_BmD, K_B}, fs \in {<<>>, <<F_Req>>, <<F_Opt, F_Req>>}}

EmitInputs ==
    SeqsUpTo(OrderObjs, MaxObjs)
        \cup {<<[key |-> K_ZN, fields |-> <<f>>]>> : f \in FieldVocab}

EmitInit ==
    /\ objs \in EmitInputs
    /\ kwargs_out = <<>>
    /\ overloads_out = <<>>
    /\ epc = {"start"}
    /\ ParserIdle
    /\ FnIdle

EmitNext == EmitKwargs \/ EmitOverloads

EmitSpec == EmitInit /\ [][EmitNext]_vars

(***************************************************************************)
(* The pure functions applied to every input of a bounded set.             *)
(***************************************************************************)
ValAlphabet == {"0", "1", "5", ".", "-", " ", "Y", "SUP2"}
LabelAlphabet == {"A", "b", "1", "-", "_", " "}

ChoiceInit ==
    /\ fn_in \in SeqsUpTo(ValAlphabet, MaxValLen)
    /\ fn_out = <<>>
    /\ fpc = "choice"
    /\ ParserIdle
    /\ EmitIdle

\* one call of _parse_choice
ParseChoiceStep ==
    /\ fpc = "choice"
    /\ fn_out' = _parse_choice(fn_in)
    /\ fpc' = "choice_done"
    /\ UNCHANGED fn_in
    /\ UNCHANGED parserVars
    /\ UNCHANGED emitVars

ChoiceSpec == ChoiceInit /\ [][ParseChoiceStep]_vars

SnakeInit ==
    /\ fn_in \in SeqsUpTo(LabelAlphabet, MaxLabelLen)
    /\ fn_out = <<>>
    /\ fpc = "snake"
    /\ ParserIdle
    /\ EmitIdle

\* one call of _snake_case
SnakeCaseStep ==
    /\ fpc = "snake"
    /\ fn_out' = _snake_case(fn_in)
    /\ fpc' = "snake_done"
    /\ UNCHANGED fn_in
    /\ UNCHANGED parserVars
    /\ UNCHANGED emitVars

SnakeSpec == SnakeInit /\ [][SnakeCaseStep]_vars

\* C9: a key value that is a pure digit string, or parses as a number with
\* no fractional part, is stored as that integer; any other value is stored
\* as the trimmed string.
C9_ChoiceValue ==
    fpc = "choice_done" =>
        LET val == Strip(fn_in, WS)
        IN  /\ ~fn_out.raised
            /\ fn_out.c =
                  IF val # <<>> /\ \A i \in DOMAIN val : val[i] \in DecDigits
                  THEN IntChoice(DecVal(val))
                  ELSE IF PyFloat(val).ok /\ PyFloat(val).integral
                  THEN IntChoice(PyFloat(val).val)
                  ELSE StrChoice(val)

\* an identifier: non-empty, lowercase letters, digits and single
\* underscores only, no leading digit
ValidIdent(s) ==
    /\ s # <<>>
    /\ \A i \in DOMAIN s : s[i] \in LowerChars \cup DecDigits \cup {"_"}
    /\ \A i \in 1..(Len(s) - 1) : ~(s[i] = "_" /\ s[i + 1] = "_")
    /\ s[1] \notin DecDigits

\* C7: the slot name synthesized from any field label is a valid identifier
C7_SlotNameIsIdentifier ==
    fpc = "snake_done" => ValidIdent(fn_out)

(***************************************************************************)
(* Claims about the emitter.                                               *)
(***************************************************************************)
\* C4: for every object list, the empty one included, the overload artifact
\* holds exactly one any-key fallback signature, and it comes after every
\* per-key signature: it is the last signature.
C4_FallbackLast ==
    "B" \in epc =>
        /\ Len(overloads_out) = Len(objs) + 1
        /\ overloads_out[Len(overloads_out)].sig = "fallback"
        /\ \A k \in 1..Len(objs) : overloads_out[k].sig = "overload"

\* C4 witness: Operation B has run on a list of two objects
C4_Witness ==
    /\ "B" \in epc
    /\ Len(objs) = 2
    /\ overloads_out[3] = FallbackSig

Perms(n) == {p \in [1..n -> 1..n] : \A i, j \in 1..n : p[i] = p[j] => i = j}

\* C5: whatever the input order, A emits one declaration per object and B
\* one per-key signature per object, both in lexicographic key order; B's
\* k-th signature binds the object of A's k-th declaration and names the
\* record A declares for it.
C5_SameSortedOrder ==
    epc = {"start", "A", "B"} =>
        /\ Len(kwargs_out) = Len(objs)
        /\ Len(overloads_out) = Len(objs) + 1
        /\ \E p \in Perms(Len(objs)) :
              /\ \A k \in 1..Len(objs) :
                    /\ kwargs_out[k] = KwargsDecl(objs[p[k]])
                    /\ overloads_out[k].key = objs[p[k]].key
                    /\ overloads_out[k].td = kwargs_out[k].name
              /\ \A k \in 1..(Len(objs) - 1) :
                    ~StrLess(objs[p[k + 1]].key, objs[p[k]].key)

\* C5 witness: both operations have run on two objects given in descending
\* key order, and the first declaration is the second object's
C5_Witness ==
    /\ epc = {"start", "A", "B"}
    /\ Len(objs) = 2
    /\ StrLess(objs[2].key, objs[1].key)
    /\ objs[1].fields # objs[2].fields
    /\ kwargs_out[1] = KwargsDecl(objs[2])
    /\ overloads_out[1].key = objs[2].key

\* the type text admits the explicit absent value
AdmitsNone(typ) == EndsWith(typ, S_OrNone)

\* the field behind the j-th slot of the k-th declaration
SlotField(k, j) == SortByKey(objs)[k].fields[j]

SlotIds == {<<k, j>> : k \in DOMAIN kwargs_out, j \in 1..MaxFields + 1}

EmittedSlots ==
    {kj \in SlotIds : kj[2] \in DOMAIN kwargs_out[kj[1]].slots}

\* C6: a field that is not required and allows blank or has a default gets
\* a slot type that admits None, whatever its kind and choices; any other
\* field gets no absent alternative.
C6_AbsentAdmitted ==
    "A" \in epc =>
        \A kj \in EmittedSlots :
            LET f == SlotField(kj[1], kj[2])
                typ == kwargs_out[kj[1]].slots[kj[2]].typ
            IN  AdmitsNone(typ) <=> (~f.required /\ (f.allows_blank \/ f.has_default))

\* the type the claim's table gives a kind: strings quoted (either quote),
\* integers bare
C10_TableTypes(f) ==
    IF f.kind \in {"alpha", "node", "object-list"} THEN {S_str}
    ELSE IF f.kind = "integer" THEN {S_int}
    ELSE IF f.kind = "real" THEN {S_float}
    ELSE IF f.kind = "boolean" THEN {S_bool}
    ELSE IF f.kind = "choice" /\ f.choices # <<>>
    THEN {S_LiteralOpen
            \o JoinWith([i \in DOMAIN f.choices |->
                            IF f.choices[i].t = "str"
                            THEN <<q[i]>> \o f.choices[i].s \o <<q[i]>>
                            ELSE PyStr(f.choices[i].n)],
                        <<",", " ">>)
            \o <<"]">> : q \in [DOMAIN f.choices -> {"'", "\""}]}
    ELSE {S_union}

C10_Marker(f) == IF f.required THEN "Required" ELSE "NotRequired"

-----------------------------------------------------------------------------
\* Texts of object markers for the keys of the returned list: two spellings
\* of one key, a second key, the end marker and a field header.
L_BeginZs == P_begin \o <<" ","Z","N",";">>

KeyVocab == {L_BeginZ, L_BeginZs, L_BeginB, L_End, L_HdrA1}

KeyTexts == SeqsUpTo(KeyVocab, MaxLines)

KeyInit ==
    /\ \E text \in KeyTexts : ParseStart(text)
    /\ EmitIdle
    /\ FnIdle

KeySpec == KeyInit /\ [][Next]_vars

\* the key a begin-object line of the text carries, read off the line itself
C11_KeyOf(line) ==
    Strip(SubSeq(line, Len(P_begin) + 1, Len(line)), {" ", ",", ";"})

-----------------------------------------------------------------------------
\* the first begin-object line of the text and the first end-object line
\* after it: the body of the first object as the text delimits it
C12_FirstBegin == BeginPos[1]

C12_EndsAfter == {e \in Range(EndPos) : e > C12_FirstBegin}

C12_FirstEnd == CHOOSE e \in C12_EndsAfter : \A x \in C12_EndsAfter : e <= x

\* the lines of that body which begin with the letter of a field header
C12_BodyHeaders ==
    {i \in Range(LinePos) : /\ C12_FirstBegin < i
                            /\ i < C12_FirstEnd
                            /\ lines[i][1] \in {"A", "N"}}

\* C12: an end-object marker closes the object it belongs to, also when it is
\* read while a field block is being scanned: the object holds no field of a
\* header that appears after the marker, and a begin-object marker that
\* follows the end marker opens a new object.
C12_EndMarkerClosesObject ==
    (pc = "done" /\ BeginPos # <<>> /\ C12_EndsAfter # {}) =>
        /\ Len(objects) >= 1
        /\ Len(objects[1].fields) <= Cardinality(C12_BodyHeaders)
        /\ (\E b \in Range(BeginPos) : b > C12_FirstEnd) => Len(objects) >= 2


-----------------------------------------------------------------------------
\* what a line of an object body is, read off its text
C13_LetterStart(line) == Len(line) >= 1 /\ line[1] \in {"A", "N"}

C13_HeaderPattern(line) ==
    C13_LetterStart(line) /\ Len(line) >= 2 /\ line[2] \in DecDigits

C13_NoDigit(line) ==
    C13_LetterStart(line) /\ (Len(line) = 1 \/ line[2] \notin PyDigits)

C13_Marker(line) == StartsWith(line, P_begin) \/ StartsWith(line, P_end)

\* the scanner of an object body, or of a field block, reads a line
C13_Reads == pc \in {"inner", "field"} /\ pos <= Len(lines)

\* C13 as stated: a line starts a field block only if it begins with
\* A<digits> or N<digits>; every other line of the body, a line that begins
\* with A or N without digits included, is ignored by the object scanner and
\* neither produces a field nor ends the current field block.
C13_OnlyPatternStartsBlock ==
    [][C13_Reads =>
         /\ (pc = "inner" /\ pc' = "field") => C13_HeaderPattern(lines[pos])
         /\ (~C13_HeaderPattern(lines[pos]) /\ ~C13_Marker(lines[pos])) =>
                IF pc = "inner"
                THEN pc' = "inner" /\ UNCHANGED <<objects, fields, cur>>
                ELSE pc' # "inner" /\ UNCHANGED <<objects, fields>>]_vars

\* C13, amended: a line starts a field block only if it begins with the
\* letter A or N; a line that begins with A or N without digits is not
\* ignored: read by the object scanner it starts a field block of index 0,
\* read inside a field block it ends that block; every other line of the
\* body that is not an object marker is ignored by the object scanner and
\* neither produces a field nor ends the current field block.
C13_LetterStartsBlock ==
    [][C13_Reads =>
         /\ (pc = "inner" /\ pc' = "field") => C13_LetterStart(lines[pos])
         /\ C13_NoDigit(lines[pos]) =>
                IF pc = "inner"
                THEN pc' = "field" /\ cur'.index = 0 /\ UNCHANGED <<objects, fields>>
                ELSE pc' = "inner" /\ Len(fields') = Len(fields) + 1
         /\ (~C13_LetterStart(lines[pos]) /\ ~C13_Marker(lines[pos])) =>
                IF pc = "inner"
                THEN pc' = "inner" /\ UNCHANGED <<objects, fields, cur>>
                ELSE pc' # "inner" /\ UNCHANGED <<objects, fields>>]_vars

\* a line "Any" has ended the field block of the header before it, and the
\* next line "Any" has started a field block of its own
C13_Witness ==
    /\ pc = "field"
    /\ pos = 5
    /\ lines[2] = L_HdrA1
    /\ lines[3] = L_Any
    /\ lines[4] = L_Any
    /\ Len(fields) = 1
    /\ cur.index = 0


-----------------------------------------------------------------------------
\* the decimal digits that follow the letter of a header line, up to the
\* first character that is not a digit
C14_LeadingDigits(line) ==
    LET n == CHOOSE k \in 0..(Len(line) - 1) :
                 /\ \A i \in 2..(k + 1) : line[i] \in DecDigits
                 /\ k + 2 > Len(line) \/ line[k + 2] \notin DecDigits
    IN  SubSeq(line, 2, n + 1)

\* C14: the index of a field is the integer value of the leading digits that
\* follow the A/N letter of its header line, and 0 when no digit follows the
\* letter, whatever punctuation comes after the digits: `A1 ,` and `A1,`
\* both give index 1, `N2,` gives 2.
C14_IndexIsLeadingDigits ==
    [][(pc = "inner" /\ pc' = "field") =>
          cur'.index = DecVal(C14_LeadingDigits(lines[pos]))]_vars


-----------------------------------------------------------------------------
\* the index the first space-delimited token of a header line gives
C15_TokenIndex(line) ==
    LET stop == IF \E i \in DOMAIN line : line[i] = " "
                THEN (CHOOSE i \in DOMAIN line :
                        line[i] = " " /\ \A j \in 1..(i - 1) : line[j] # " ") - 1
                ELSE Len(line)
        rest == SubSeq(line, 2, stop)
    IN  IF rest # <<>> /\ \A i \in DOMAIN rest : rest[i] \in DecDigits
        THEN DecVal(rest)
        ELSE 0

\* the field a header line alone declares
C15_Defaults(line) ==
    [index |-> C15_TokenIndex(line), name_raw |-> S_Field, kind |-> "unknown",
     required |-> FALSE, allows_blank |-> FALSE, has_default |-> FALSE,
     choices |-> <<>>]

=============================================================================
